---------------------------- MODULE Spec2Model ----------------------------
(***************************************************************************)
(* A model of two pieces of the ArangoDB Kubernetes operator:              *)
(*                                                                         *)
(*   - Resources.EnsureServiceMonitor (package resources), which creates   *)
(*     or deletes the exporter ServiceMonitor of one deployment, with      *)
(*     EnsureMonitoringClient and makeEndpoint;                            *)
(*   - stateUnavailableHandler (package backup), which computes the next   *)
(*     status of an ArangoBackup that is in state Unavailable.             *)
(*                                                                         *)
(* Spec is the reconciler: one Resources object, one deployment, the       *)
(* ServiceMonitor of that deployment in the API server, and other actors   *)
(* (garbage collection, an administrator) that may create or delete the    *)
(* ServiceMonitor at any moment, also between two client calls of one      *)
(* EnsureServiceMonitor call.  SpecBackup is the backup handler: one       *)
(* ArangoBackup whose status is replaced by the status the handler         *)
(* returns.                                                                *)
(* SpecTicks is SpecBackup for a record that starts with available =       *)
(* false.  SpecClient is EnsureMonitoringClient called by several          *)
(* goroutines in any interleaving, SpecClientSeq the same calls one after  *)
(* another.  SpecConverge is the reconciler alone with the spec of the     *)
(* deployment held fixed, calls failing or being abandoned at any step,    *)
(* under strong fairness of the client calls that succeed.                 *)
(***************************************************************************)
EXTENDS Naturals, Sequences, FiniteSets, TLC

VARIABLES
    monitoringClient,  \* Resources.monitoringClient: 0 is nil, n > 0 the n-th client constructed
    resource,          \* the ServiceMonitor in the API server (present or not)
    pc,                \* where the running EnsureServiceMonitor call stands
    cur,               \* the running call: the spec it read, what it has issued so far
    ext,               \* another actor changed the ServiceMonitor since the last call returned
    last,              \* the most recently returned EnsureServiceMonitor call
    prev,              \* the call that returned before last
    prev2,             \* the call that returned before prev
    backup,            \* the persisted ArangoBackup status
    tick,              \* the most recent stateUnavailableHandler call: inputs and results
    desired,           \* the spec of the deployment while it is held fixed
    callers,           \* the goroutines calling EnsureMonitoringClient, each where it stands
    built              \* the number of monitoring clients constructed so far

rvars == <<monitoringClient, resource, pc, cur, ext, last, prev, prev2>>
bvars == <<backup, tick>>
cvars == <<desired, callers, built>>
rvarsButClient == <<resource, pc, cur, ext, last, prev, prev2>>
vars == <<monitoringClient, resource, pc, cur, ext, last, prev, prev2, backup, tick,
          desired, callers, built>>

-----------------------------------------------------------------------------
(* Bounds of the model.                                                    *)

\* The largest number of DB servers (and of pieces) a backup reports.
MaxServers == 2

\* The largest number of EnsureMonitoringClient calls one goroutine makes.
MaxCalls == 3

-----------------------------------------------------------------------------
(* Errors.                                                                 *)

\* An error value: what failed, the kind it carries (Temporary, Fatal, or
\* None for an error no classifier has touched) and whether maskAny wrapped it.
NoErr == [cause |-> "nil", kind |-> "nil", masked |-> FALSE]

\* An error as a client or a collaborator reports it: no kind attached.
RawErr(cause) == [cause |-> cause, kind |-> "None", masked |-> FALSE]

\* maskAny(err) takes the error alone and is applied alike at every failure
\* site of the resources package: it wraps the error and keeps its cause.
maskAny(err) == [err EXCEPT !.masked = TRUE]

\* newTemporaryError(err): the error with kind Temporary.
newTemporaryError(err) == [err EXCEPT !.kind = "Temporary"]

\* newFatalErrorf(msg): a new error with kind Fatal.
newFatalErrorf(msg) == [cause |-> msg, kind |-> "Fatal", masked |-> FALSE]

\* k8sutil.IsNotFound(err)
IsNotFound(err) == err.cause = "NotFound"

-----------------------------------------------------------------------------
(* The deployment and its ServiceMonitor.                                  *)

\* apiObject.GetName(): the one deployment this Resources belongs to.
DeploymentName == "depl"

\* k8sutil.CreateExporterClientServiceName(deploymentName)
CreateExporterClientServiceName(deploymentName) == <<deploymentName, "exporter">>

LabelsForExporterServiceMonitor(deploymentName) ==
    [arango_deployment |-> deploymentName, app |-> "arangodb", context |-> "metrics"]

LabelsForExporterServiceMonitorSelector(deploymentName) ==
    [arango_deployment |-> deploymentName, app |-> "arangodb"]

\* The spec EnsureServiceMonitor reads: spec.Metrics.IsEnabled(), spec.IsSecure().
Intents == [metricsEnabled : BOOLEAN, secure : BOOLEAN]

\* What k8sutil.GetCASecret returns: a certificate, or an error.
CACerts == {"ca1", "ca2"}
CAError == "error"
CAResults == CACerts \cup {CAError}

\* makeEndpoint reads the CA secret only when isSecure.
CALookups(isSecure) == IF isSecure THEN CAResults ELSE {CAError}

NoTLS == [set |-> FALSE, caFile |-> "", insecureSkipVerify |-> FALSE]

\* A slip in makeEndpoint: without the CA certificate the endpoint still asks
\* for the verification of the server's certificate.
makeEndpointVerifiesWithoutCA(isSecure, ca) ==
    IF isSecure
    THEN LET tlsconfig == IF ca # CAError
                          THEN [set |-> TRUE, caFile |-> ca, insecureSkipVerify |-> FALSE]
                          ELSE [set |-> TRUE, caFile |-> "", insecureSkipVerify |-> FALSE]
         IN  [port |-> "exporter", interval |-> "10s", scheme |-> "https", tls |-> tlsconfig]
    ELSE [port |-> "exporter", interval |-> "10s", scheme |-> "http", tls |-> NoTLS]

\* makeEndpoint(isSecure), given the outcome ca of the CA secret lookup.
makeEndpoint(isSecure, ca) ==
    IF isSecure
    THEN LET tlsconfig == IF ca # CAError
                          THEN [set |-> TRUE, caFile |-> ca, insecureSkipVerify |-> FALSE]
                          ELSE [set |-> TRUE, caFile |-> "", insecureSkipVerify |-> TRUE]
         IN  [port |-> "exporter", interval |-> "10s", scheme |-> "https", tls |-> tlsconfig]
    ELSE [port |-> "exporter", interval |-> "10s", scheme |-> "http", tls |-> NoTLS]

\* A slip in building the ServiceMonitor: the selector gets the labels of the
\* ServiceMonitor itself.
NewServiceMonitorSelectorFromLabels(intent, ca) ==
    [present  |-> TRUE,
     name     |-> CreateExporterClientServiceName(DeploymentName),
     labels   |-> LabelsForExporterServiceMonitor(DeploymentName),
     owner    |-> DeploymentName,
     jobLabel |-> "k8s-app",
     endpoint |-> makeEndpoint(intent.secure, ca),
     selector |-> LabelsForExporterServiceMonitor(DeploymentName)]

\* The ServiceMonitor EnsureServiceMonitor builds before Create.
NewServiceMonitor(intent, ca) ==
    [present  |-> TRUE,
     name     |-> CreateExporterClientServiceName(DeploymentName),
     labels   |-> LabelsForExporterServiceMonitor(DeploymentName),
     owner    |-> DeploymentName,
     jobLabel |-> "k8s-app",
     endpoint |-> makeEndpoint(intent.secure, ca),
     selector |-> LabelsForExporterServiceMonitorSelector(DeploymentName)]

\* No ServiceMonitor of that name in the API server.
Absent ==
    [present  |-> FALSE,
     name     |-> CreateExporterClientServiceName(DeploymentName),
     labels   |-> [arango_deployment |-> "", app |-> "", context |-> ""],
     owner    |-> "",
     jobLabel |-> "",
     endpoint |-> [port |-> "", interval |-> "", scheme |-> "", tls |-> NoTLS],
     selector |-> [arango_deployment |-> "", app |-> ""]]

\* A ServiceMonitor of that name made by somebody else.
Foreign ==
    [present  |-> TRUE,
     name     |-> CreateExporterClientServiceName(DeploymentName),
     labels   |-> [arango_deployment |-> "", app |-> "other", context |-> "metrics"],
     owner    |-> "",
     jobLabel |-> "other",
     endpoint |-> [port |-> "metrics", interval |-> "30s", scheme |-> "http", tls |-> NoTLS],
     selector |-> [arango_deployment |-> "", app |-> "other"]]

-----------------------------------------------------------------------------
(* The record of a call.                                                   *)

NoIntent == [metricsEnabled |-> FALSE, secure |-> FALSE]

\* Before any call has returned.
NoCall ==
    [valid |-> FALSE, intent |-> NoIntent, startedPresent |-> FALSE,
     ops |-> <<>>, reply |-> "", ok |-> FALSE, err |-> NoErr, failedAt |-> "",
     ext |-> FALSE, got |-> "", seen |-> Absent, ca |-> "", created |-> Absent]

\* No call is running.  got is what Get answered ("found", "NotFound" or
\* "error"), seen the ServiceMonitor as Get found it, ca what the lookup of
\* the CA secret gave and created the ServiceMonitor handed to Create.
NoCur ==
    [intent |-> NoIntent, startedPresent |-> FALSE, ops |-> <<>>,
     got |-> "", seen |-> Absent, ca |-> "", created |-> Absent]

\* What is remembered of a call once a later call has returned: of a call
\* that failed, only that it failed.
Failed ==
    [valid |-> TRUE, ok |-> FALSE, intent |-> NoIntent, startedPresent |-> FALSE,
     ops |-> <<>>, ext |-> FALSE]

NoEarlier ==
    [valid |-> FALSE, ok |-> FALSE, intent |-> NoIntent, startedPresent |-> FALSE,
     ops |-> <<>>, ext |-> FALSE]

Compact(call) ==
    IF ~call.valid THEN NoEarlier
    ELSE IF call.ok
    THEN [valid |-> TRUE, ok |-> TRUE, intent |-> call.intent,
          startedPresent |-> call.startedPresent, ops |-> call.ops, ext |-> call.ext]
    ELSE Failed

\* Of the call before that, only a call that returned nil and was not crossed
\* by another actor is remembered in full.
Compact2(earlier) ==
    IF earlier.valid /\ ~(earlier.ok /\ ~earlier.ext) THEN Failed ELSE earlier

\* The call returns err (NoErr for nil).  ops are the mutating client calls
\* it issued, reply is what the client answered to the last of them, failedAt
\* names the step that failed.
Return(call, ops, reply, err, failedAt) ==
    /\ last' = [valid |-> TRUE, intent |-> call.intent,
                startedPresent |-> call.startedPresent,
                ops |-> ops, reply |-> reply, ok |-> (err = NoErr), err |-> err,
                failedAt |-> failedAt, ext |-> ext,
                got |-> call.got, seen |-> call.seen,
                ca |-> call.ca, created |-> call.created]
    /\ prev' = Compact(last)
    /\ prev2' = Compact2(prev)
    /\ ext' = FALSE
    /\ pc' = "idle"
    /\ cur' = NoCur

-----------------------------------------------------------------------------
(* The goroutines that call EnsureMonitoringClient on one Resources.       *)

Procs == {1, 2}

\* A goroutine outside EnsureMonitoringClient.  mClient is the local of line
\* 62, ret and failed are what its latest call returned (client 0 is nil),
\* tried whether that call went on to construct a client, n the number of
\* calls it has made.
IdleCaller ==
    [pc |-> "idle", mClient |-> 0, ret |-> 0, failed |-> FALSE, tried |-> FALSE,
     returned |-> FALSE, n |-> 0]

NoCallers == [p \in Procs |-> IdleCaller]

\* k8sutil.InClusterConfig() and clientv1.NewForConfig(restConfig)
ConstructOutcomes == {"ok", "InClusterConfig", "NewForConfig"}

\* A slip at the head of EnsureMonitoringClient: the cached client is not
\* looked at.
AfterCheckAlwaysConstructs(client) == "construct"

\* if r.monitoringClient != nil { return r.monitoringClient, nil }
AfterCheck(client) == IF client # 0 THEN "return" ELSE "construct"

\* Goroutine p enters EnsureMonitoringClient and reads r.monitoringClient.
Check(p) ==
    /\ callers[p].pc = "idle"
    /\ callers[p].n < MaxCalls
    /\ callers' = [callers EXCEPT ![p] =
          IF AfterCheck(monitoringClient) = "return"
          THEN [pc |-> "idle", mClient |-> 0, ret |-> monitoringClient,
                failed |-> FALSE, tried |-> FALSE, returned |-> TRUE,
                n |-> callers[p].n + 1]
          ELSE [pc |-> "construct", mClient |-> 0, ret |-> 0,
                failed |-> FALSE, tried |-> TRUE, returned |-> FALSE,
                n |-> callers[p].n + 1]]
    /\ UNCHANGED <<monitoringClient, built, desired>>
    /\ UNCHANGED rvarsButClient
    /\ UNCHANGED bvars

\* Goroutine p makes a client: InClusterConfig, then NewForConfig.  A failure
\* of either returns nil and the error.
Construct(p) ==
    /\ callers[p].pc = "construct"
    /\ \E outcome \in ConstructOutcomes :
         IF outcome = "ok"
         THEN /\ built' = built + 1
              /\ callers' = [callers EXCEPT ![p].pc = "store", ![p].mClient = built + 1]
         ELSE /\ built' = built
              /\ callers' = [callers EXCEPT ![p].pc = "idle", ![p].failed = TRUE,
                                            ![p].returned = TRUE]
    /\ UNCHANGED <<monitoringClient, desired>>
    /\ UNCHANGED rvarsButClient
    /\ UNCHANGED bvars

\* Goroutine p stores the client it made in r.monitoringClient and returns it.
Store(p) ==
    /\ callers[p].pc = "store"
    /\ monitoringClient' = callers[p].mClient
    /\ callers' = [callers EXCEPT ![p].pc = "idle", ![p].mClient = 0,
                                  ![p].ret = callers[p].mClient,
                                  ![p].returned = TRUE]
    /\ UNCHANGED <<built, desired>>
    /\ UNCHANGED rvarsButClient
    /\ UNCHANGED bvars

\* Goroutine p enters EnsureMonitoringClient while no other call is running.
CheckSeq(p) ==
    /\ \A q \in Procs : callers[q].pc = "idle"
    /\ Check(p)

-----------------------------------------------------------------------------
(* EnsureMonitoringClient and EnsureServiceMonitor.                        *)

\* EnsureServiceMonitor up to and including EnsureMonitoringClient: it reads
\* the spec, then takes the cached client or constructs one.
BeginFor(intents) ==
    /\ pc = "idle"
    /\ \E intent \in intents :
         LET call == [NoCur EXCEPT !.intent = intent,
                                   !.startedPresent = resource.present]
         IN  IF monitoringClient # 0
             THEN /\ pc' = "get"
                  /\ cur' = call
                  /\ UNCHANGED <<monitoringClient, ext, last, prev, prev2>>
             ELSE \E outcome \in ConstructOutcomes :
                    IF outcome = "ok"
                    THEN /\ monitoringClient' = 1
                         /\ pc' = "get"
                         /\ cur' = call
                         /\ UNCHANGED <<ext, last, prev, prev2>>
                    ELSE /\ Return(call, <<>>, "", maskAny(maskAny(RawErr(outcome))), "client")
                         /\ UNCHANGED monitoringClient
    /\ UNCHANGED <<resource, backup, tick, desired, callers, built>>

\* A call with whatever the spec of the deployment is at that moment.
Begin == BeginFor(Intents)

\* A call while the spec of the deployment is held fixed.
BeginFixed == BeginFor({desired})

\* What serviceMonitors.Get may answer: the object or NotFound, as the API
\* server has it, or a failure of the call.
GetOutcomes == {"answer", "Unavailable"}

GetErr(found, outcome) ==
    IF outcome # "answer" THEN RawErr(outcome)
    ELSE IF found THEN NoErr ELSE RawErr("NotFound")

\* A slip after Get: the test of wantMetrics for a ServiceMonitor that was
\* found is inverted.
AfterGetInverted(err, wantMetrics) ==
    IF err # NoErr
    THEN IF IsNotFound(err)
         THEN IF ~wantMetrics THEN "return" ELSE "create"
         ELSE "fail"
    ELSE IF ~wantMetrics THEN "return" ELSE "delete"

\* A slip after Get: a ServiceMonitor that was found is never deleted.
AfterGetNeverDeletes(err, wantMetrics) ==
    IF err # NoErr
    THEN IF IsNotFound(err)
         THEN IF ~wantMetrics THEN "return" ELSE "create"
         ELSE "fail"
    ELSE "return"

\* A slip after Get: a ServiceMonitor that was found and is wanted is created
\* anew.
AfterGetFoundCreatesAnew(err, wantMetrics) ==
    IF err # NoErr
    THEN IF IsNotFound(err)
         THEN IF ~wantMetrics THEN "return" ELSE "create"
         ELSE "fail"
    ELSE IF wantMetrics THEN "create" ELSE "delete"

\* A slip after Get: every error is taken for NotFound.
AfterGetErrorMeansAbsent(err, wantMetrics) ==
    IF err # NoErr
    THEN IF ~wantMetrics THEN "return" ELSE "create"
    ELSE IF wantMetrics THEN "return" ELSE "delete"

\* A slip after Get: a ServiceMonitor that is wanted and not found is not
\* created.
AfterGetNeverCreates(err, wantMetrics) ==
    IF err # NoErr
    THEN IF IsNotFound(err) THEN "return" ELSE "fail"
    ELSE IF wantMetrics THEN "return" ELSE "delete"

\* What EnsureServiceMonitor does with Get's answer err: "fail" (return the
\* error), "return" (return nil), or go on to Create or to Delete.
AfterGet(err, wantMetrics) ==
    IF err # NoErr
    THEN IF IsNotFound(err)
         THEN IF ~wantMetrics THEN "return" ELSE "create"
         ELSE "fail"
    ELSE IF wantMetrics THEN "return" ELSE "delete"

Get ==
    /\ pc = "get"
    /\ \E outcome \in GetOutcomes :
         LET err  == GetErr(resource.present, outcome)
             todo == AfterGet(err, cur.intent.metricsEnabled)
             got  == IF outcome # "answer" THEN "error"
                     ELSE IF resource.present THEN "found" ELSE "NotFound"
             call == [cur EXCEPT !.got = got,
                                 !.seen = IF got = "found" THEN resource ELSE Absent]
         IN  CASE todo = "fail"   -> Return(call, call.ops, "", maskAny(err), "get")
               [] todo = "return" -> Return(call, call.ops, "", NoErr, "")
               [] OTHER           -> /\ pc' = todo
                                     /\ cur' = call
                                     /\ UNCHANGED <<ext, last, prev, prev2>>
    /\ UNCHANGED <<monitoringClient, resource, backup, tick, desired, callers, built>>

\* What serviceMonitors.Create may answer: the object is created, or the API
\* server refuses it (it exists already, it does not validate), or the call fails.
CreateOutcomes == {"ok", "AlreadyExists", "Invalid", "Unavailable"}

\* What EnsureServiceMonitor returns after Create answered outcome.
AfterCreate(outcome) ==
    IF outcome # "ok" THEN maskAny(RawErr(outcome)) ELSE NoErr

Create ==
    /\ pc = "create"
    /\ \E ca \in CALookups(cur.intent.secure), outcome \in CreateOutcomes :
         /\ (outcome = "ok") => ~resource.present
         /\ (outcome = "AlreadyExists") => resource.present
         /\ resource' = IF outcome = "ok" THEN NewServiceMonitor(cur.intent, ca)
                                          ELSE resource
         /\ Return([cur EXCEPT !.ca = IF cur.intent.secure THEN ca ELSE "",
                               !.created = NewServiceMonitor(cur.intent, ca)],
                   Append(cur.ops, "Create"), outcome, AfterCreate(outcome),
                   IF AfterCreate(outcome) = NoErr THEN "" ELSE "create")
    /\ UNCHANGED <<monitoringClient, backup, tick, desired, callers, built>>

\* What serviceMonitors.Delete may answer.
DeleteOutcomes == {"ok", "NotFound", "Unavailable"}

\* What EnsureServiceMonitor returns after Delete answered outcome.
AfterDelete(outcome) ==
    IF outcome = "ok" THEN NoErr ELSE maskAny(RawErr(outcome))

Delete ==
    /\ pc = "delete"
    /\ \E outcome \in DeleteOutcomes :
         /\ (outcome = "ok") => resource.present
         /\ (outcome = "NotFound") => ~resource.present
         /\ resource' = IF outcome = "ok" THEN Absent ELSE resource
         /\ Return(cur, Append(cur.ops, "Delete"), outcome, AfterDelete(outcome),
                   IF AfterDelete(outcome) = NoErr THEN "" ELSE "delete")
    /\ UNCHANGED <<monitoringClient, backup, tick, desired, callers, built>>

\* The running call is abandoned between two of its steps (the reconcile is
\* cancelled, the operator is stopped): it returns nothing and issues nothing
\* more.  When it was about to Create or Delete, the request may have reached
\* the API server all the same (sent); when the operator restarts, the
\* cached client is gone (restart).
Cancel ==
    /\ pc \in {"get", "create", "delete"}
    /\ \E sent \in BOOLEAN, restart \in BOOLEAN, ca \in CALookups(cur.intent.secure) :
         /\ sent => pc \in {"create", "delete"}
         /\ resource' = IF sent /\ pc = "create" /\ ~resource.present
                            THEN NewServiceMonitor(cur.intent, ca)
                        ELSE IF sent /\ pc = "delete" THEN Absent
                        ELSE resource
         /\ monitoringClient' = IF restart THEN 0 ELSE monitoringClient
         /\ Return(cur,
                   IF sent THEN Append(cur.ops, IF pc = "create" THEN "Create" ELSE "Delete")
                           ELSE cur.ops,
                   "", RawErr("cancelled"), "cancel")
    /\ UNCHANGED <<backup, tick, desired, callers, built>>

\* Another actor removes the ServiceMonitor (owner-reference garbage
\* collection, an administrator).
ExternalDelete ==
    /\ resource.present
    /\ resource' = Absent
    /\ ext' = TRUE
    /\ UNCHANGED <<monitoringClient, pc, cur, last, prev, prev2, backup, tick, desired, callers, built>>

\* Another actor creates a ServiceMonitor of the same name.
ExternalCreate ==
    /\ ~resource.present
    /\ resource' = Foreign
    /\ ext' = TRUE
    /\ UNCHANGED <<monitoringClient, pc, cur, last, prev, prev2, backup, tick, desired, callers, built>>

-----------------------------------------------------------------------------
(* The backup handler.                                                     *)

\* ArangoBackupStatus.Backup == nil
NoDetails ==
    [set |-> FALSE, id |-> "", available |-> FALSE,
     numberOfDBServers |-> 0, numberOfPiecesPresent |-> 0]

BackupIDs == {"b1", "b2"}

\* driver.BackupMeta, as client.Get returns it for the backup id.
BackupMeta(id) ==
    [set : {TRUE}, id : {id}, available : BOOLEAN,
     numberOfDBServers : 0..MaxServers, numberOfPiecesPresent : 0..MaxServers]

Details == {NoDetails} \cup UNION {BackupMeta(id) : id \in BackupIDs}

\* The backup status while only the reconciler runs.
NoBackup == [state |-> "", available |-> FALSE, backup |-> NoDetails]

\* No status returned (a nil *ArangoBackupStatus).
NoStatus == [state |-> "nil", available |-> FALSE, backup |-> NoDetails]

\* A slip in the state setter: it also clears available.
updateStatusStateClearsAvailable(status, state) ==
    [status EXCEPT !.state = state, !.available = FALSE]

\* updateStatusState(state, ""), updateStatusAvailable(available) and
\* updateStatusBackup(backupMeta): each sets one field of the status.
updateStatusState(status, state) == [status EXCEPT !.state = state]

updateStatusAvailable(status, available) == [status EXCEPT !.available = available]

updateStatusBackup(status, backupMeta) == [status EXCEPT !.backup = backupMeta]

\* The updates of one wrapUpdateStatus call applied to status in the order
\* given: order names the fields, the values are state, backupMeta, available.
RECURSIVE ApplyUpdates(_, _, _, _, _)
ApplyUpdates(order, status, state, backupMeta, available) ==
    IF order = <<>> THEN status
    ELSE LET f == Head(order)
             next == CASE f = "state"     -> updateStatusState(status, state)
                       [] f = "backup"    -> updateStatusBackup(status, backupMeta)
                       [] f = "available" -> updateStatusAvailable(status, available)
         IN  ApplyUpdates(Tail(order), next, state, backupMeta, available)

\* Every order of the three updates.
Orders ==
    {o \in [1..3 -> {"state", "backup", "available"}] :
        \A i, j \in 1..3 : (i # j) => (o[i] # o[j])}

\* wrapUpdateStatus(backup, update...): the updated copy of the status, and
\* no error.  status is the copy with the updates already applied in order.
wrapUpdateStatus(status, lookups) ==
    [hasStatus |-> TRUE, status |-> status, err |-> NoErr, lookups |-> lookups]

\* return nil, err
ReturnErr(err, lookups) ==
    [hasStatus |-> FALSE, status |-> NoStatus, err |-> err, lookups |-> lookups]

\* What h.getArangoDeploymentObject may return: the deployment, or an error
\* of any kind.
DeploymentOutcomes ==
    {NoErr} \cup {[cause |-> "deployment", kind |-> k, masked |-> FALSE] :
                    k \in {"Temporary", "Fatal", "None"}}

\* What h.arangoClientFactory may return: a client, or an error.
ClientOutcomes == {NoErr, RawErr("client")}

\* What client.Get may return for the backup id: its meta, or an error.
LookupErrors == {RawErr("NotFound"), RawErr("Unavailable")}

\* driver.IsNotFound(err)
DriverIsNotFound(err) == err.cause = "NotFound"

\* A slip in the readiness test: the pieces are not counted.
IsReadyIgnoresPieces(backupMeta) == backupMeta.available

\* backupMeta.Available and all pieces present
IsReady(backupMeta) ==
    ~(~backupMeta.available
        \/ backupMeta.numberOfDBServers # backupMeta.numberOfPiecesPresent)

\* A slip on NotFound: available is left as it was.
OnNotFoundKeepsAvailable(status) ==
    wrapUpdateStatus(updateStatusState(status, "Deleted"), 1)

\* A slip on a failed lookup: the backup is marked Failed.
OnLookupErrorMarksFailed(status) ==
    wrapUpdateStatus(
      updateStatusAvailable(updateStatusState(status, "Failed"), FALSE), 1)

\* A slip on a backup that is not ready: available is set as in the ready
\* branch.
OnNotReadySetsAvailable(status, backupMeta) ==
    wrapUpdateStatus(
      updateStatusAvailable(
        updateStatusBackup(updateStatusState(status, "Unavailable"), backupMeta),
        TRUE), 1)

\* A slip on a ready backup: the backupMeta is not stored.
OnReadyKeepsOldMeta(status, backupMeta) ==
    wrapUpdateStatus(
      updateStatusAvailable(updateStatusState(status, "Ready"), TRUE), 1)

\* The four ways stateUnavailableHandler ends after client.Get: the backup
\* is not found, the lookup failed otherwise, the backup is not ready, it is.
OnNotFound(status) ==
    wrapUpdateStatus(
      updateStatusAvailable(updateStatusState(status, "Deleted"), FALSE), 1)

OnLookupError(status) ==
    wrapUpdateStatus(updateStatusAvailable(status, FALSE), 1)

OnNotReady(status, backupMeta) ==
    wrapUpdateStatus(
      updateStatusAvailable(
        updateStatusBackup(updateStatusState(status, "Unavailable"), backupMeta),
        FALSE), 1)

OnReady(status, backupMeta) ==
    wrapUpdateStatus(
      updateStatusAvailable(
        updateStatusState(updateStatusBackup(status, backupMeta), "Ready"),
        TRUE), 1)

\* stateUnavailableHandler(h, backup) after client.Get returned (backupMeta, err).
AfterLookup(status, backupMeta, err) ==
    IF err # NoErr
    THEN IF DriverIsNotFound(err) THEN OnNotFound(status) ELSE OnLookupError(status)
    ELSE IF ~IsReady(backupMeta)
         THEN OnNotReady(status, backupMeta)
         ELSE OnReady(status, backupMeta)

\* A slip before the lookup: the missing .status.backup is reported as a
\* temporary error.
BeforeLookupMissingIsTemporary(status, derr, cerr) ==
    IF derr # NoErr THEN ReturnErr(derr, 0)
    ELSE IF cerr # NoErr THEN ReturnErr(newTemporaryError(cerr), 0)
    ELSE IF ~status.backup.set
         THEN ReturnErr(newTemporaryError(RawErr("missing field .status.backup")), 0)
    ELSE [hasStatus |-> FALSE, status |-> NoStatus, err |-> NoErr, lookups |-> 1]

\* A slip before the lookup: the client factory's error is returned as it is.
BeforeLookupClientErrUnwrapped(status, derr, cerr) ==
    IF derr # NoErr THEN ReturnErr(derr, 0)
    ELSE IF cerr # NoErr THEN ReturnErr(cerr, 0)
    ELSE IF ~status.backup.set THEN ReturnErr(newFatalErrorf("missing field .status.backup"), 0)
    ELSE [hasStatus |-> FALSE, status |-> NoStatus, err |-> NoErr, lookups |-> 1]

\* A slip before the lookup: .status.backup is not tested.
BeforeLookupSkipsMissingCheck(status, derr, cerr) ==
    IF derr # NoErr THEN ReturnErr(derr, 0)
    ELSE IF cerr # NoErr THEN ReturnErr(newTemporaryError(cerr), 0)
    ELSE [hasStatus |-> FALSE, status |-> NoStatus, err |-> NoErr, lookups |-> 1]

\* stateUnavailableHandler(h, backup) up to client.Get: derr and cerr are what
\* getArangoDeploymentObject and arangoClientFactory returned.  It answers
\* "lookup" when it goes on to client.Get.
BeforeLookup(status, derr, cerr) ==
    IF derr # NoErr THEN ReturnErr(derr, 0)
    ELSE IF cerr # NoErr THEN ReturnErr(newTemporaryError(cerr), 0)
    ELSE IF ~status.backup.set THEN ReturnErr(newFatalErrorf("missing field .status.backup"), 0)
    ELSE [hasStatus |-> FALSE, status |-> NoStatus, err |-> NoErr, lookups |-> 1]

GoesToLookup(status, derr, cerr) ==
    LET r == BeforeLookup(status, derr, cerr) IN r.err = NoErr /\ r.lookups = 1

stateUnavailableHandler(status, derr, cerr, backupMeta, gerr) ==
    IF GoesToLookup(status, derr, cerr)
    THEN AfterLookup(status, backupMeta, gerr)
    ELSE BeforeLookup(status, derr, cerr)

NoTick ==
    [valid |-> FALSE, pre |-> NoBackup, derr |-> NoErr, cerr |-> NoErr,
     looked |-> FALSE, backupMeta |-> NoDetails, gerr |-> NoErr,
     res |-> ReturnErr(NoErr, 0)]

\* One tick of the operator for the backup: the handler of state Unavailable
\* runs, and the status it returns replaces the persisted one.
Tick ==
    /\ backup.state = "Unavailable"
    /\ \E derr \in DeploymentOutcomes, cerr \in ClientOutcomes :
         LET looked == GoesToLookup(backup, derr, cerr)
         IN  \E answer \in IF looked
                           THEN BackupMeta(backup.backup.id) \cup LookupErrors
                           ELSE {NoErr} :
               LET isErr      == answer \in LookupErrors \cup {NoErr}
                   backupMeta == IF isErr THEN NoDetails ELSE answer
                   gerr       == IF isErr THEN answer ELSE NoErr
                   res        == stateUnavailableHandler(backup, derr, cerr, backupMeta, gerr)
               IN  /\ tick' = [valid |-> TRUE, pre |-> backup, derr |-> derr,
                               cerr |-> cerr, looked |-> looked,
                               backupMeta |-> backupMeta, gerr |-> gerr, res |-> res]
                   /\ backup' = IF res.hasStatus THEN res.status ELSE backup
    /\ UNCHANGED rvars
    /\ UNCHANGED cvars

\* The ArangoBackup comes from the handlers of the other states: in state
\* Unavailable, with any availability flag and any backup details, or none.
InitBackup ==
    /\ monitoringClient = 0
    /\ resource = Absent
    /\ pc = "idle"
    /\ cur = NoCur
    /\ ext = FALSE
    /\ last = NoCall
    /\ prev = NoEarlier
    /\ prev2 = NoEarlier
    /\ backup \in [state : {"Unavailable"}, available : BOOLEAN, backup : Details]
    /\ tick = NoTick
    /\ desired = NoIntent
    /\ callers = NoCallers
    /\ built = 0

NextBackup == Tick

SpecBackup == InitBackup /\ [][NextBackup]_vars

\* The ticks of a backup whose record starts with available = false.
InitTicks == InitBackup /\ ~backup.available

SpecTicks == InitTicks /\ [][NextBackup]_vars

\* The goroutines calling EnsureMonitoringClient on a new Resources, in any
\* interleaving.
InitClient ==
    /\ monitoringClient = 0
    /\ built = 0
    /\ callers = NoCallers
    /\ resource = Absent
    /\ pc = "idle"
    /\ cur = NoCur
    /\ ext = FALSE
    /\ last = NoCall
    /\ prev = NoEarlier
    /\ prev2 = NoEarlier
    /\ backup = NoBackup
    /\ tick = NoTick
    /\ desired = NoIntent

NextClient == \E p \in Procs : Check(p) \/ Construct(p) \/ Store(p)

SpecClient == InitClient /\ [][NextClient]_vars

\* The same calls one after another.
NextClientSeq == \E p \in Procs : CheckSeq(p) \/ Construct(p) \/ Store(p)

SpecClientSeq == InitClient /\ [][NextClientSeq]_vars

\* The ServiceMonitors EnsureServiceMonitor may have created earlier.
Created ==
    {NewServiceMonitor(intent, ca) : intent \in Intents, ca \in CAResults}

\* The reconciler alone, with the spec of the deployment held fixed, starting
\* with the ServiceMonitor in any state; a call may fail or be abandoned at
\* any step.
InitConverge ==
    /\ monitoringClient = 0
    /\ built = 0
    /\ callers = NoCallers
    /\ resource \in {Absent, Foreign} \cup Created
    /\ pc = "idle"
    /\ cur = NoCur
    /\ ext = FALSE
    /\ last = NoCall
    /\ prev = NoEarlier
    /\ prev2 = NoEarlier
    /\ backup = NoBackup
    /\ tick = NoTick
    /\ desired \in Intents

NextConverge ==
    \/ BeginFixed
    \/ Get
    \/ Create
    \/ Delete
    \/ Cancel

\* A step in which a client call succeeds: the monitoring client is there,
\* Get answers, Create or Delete is carried out.
BeginSucceeds == BeginFixed /\ pc' = "get"
GetSucceeds == Get /\ ~(pc' = "idle" /\ ~last'.ok)
CreateSucceeds == Create /\ last'.ok
DeleteSucceeds == Delete /\ last'.ok

\* EnsureServiceMonitor keeps being invoked, and each client call, tried again
\* and again, succeeds in the end.
FairConverge ==
    /\ SF_vars(BeginSucceeds)
    /\ SF_vars(GetSucceeds)
    /\ SF_vars(CreateSucceeds)
    /\ SF_vars(DeleteSucceeds)

SpecConverge == InitConverge /\ [][NextConverge]_vars /\ FairConverge

-----------------------------------------------------------------------------

Init ==
    /\ monitoringClient = 0
    /\ resource \in {Absent, Foreign}
    /\ pc = "idle"
    /\ cur = NoCur
    /\ ext = FALSE
    /\ last = NoCall
    /\ prev = NoEarlier
    /\ prev2 = NoEarlier
    /\ backup = NoBackup
    /\ tick = NoTick
    /\ desired = NoIntent
    /\ callers = NoCallers
    /\ built = 0

Next ==
    \/ Begin
    \/ Get
    \/ Create
    \/ Delete
    \/ ExternalDelete
    \/ ExternalCreate

Spec == Init /\ [][Next]_vars

-----------------------------------------------------------------------------
(* The reconciler's properties (checked under Spec).                       *)

\* C1 (idempotence): when a call returned nil and the next call ran with the
\* same spec, with no other actor changing the ServiceMonitor between the
\* first call's return and the second call's return, the second call issued
\* no Create and no Delete.
C1_SecondCallIssuesNothing ==
    (prev.valid /\ prev.ok /\ last.valid /\ last.intent = prev.intent /\ ~last.ext)
        => last.ops = <<>>

\* The first call created or deleted, the second call with the same spec
\* returned nil too.
C1_Witness ==
    /\ prev.valid /\ prev.ok /\ prev.ops # <<>>
    /\ last.valid /\ last.ok /\ last.intent = prev.intent /\ ~last.ext

\* C2: when the most recent call returned nil and no other actor has changed
\* the ServiceMonitor since the call before it returned, the ServiceMonitor
\* exists if and only if that call's spec had metrics enabled.
C2_ExistsIffEnabled ==
    (last.valid /\ last.ok /\ ~last.ext /\ ~ext)
        => (resource.present <=> last.intent.metricsEnabled)

\* A call with metrics disabled found the ServiceMonitor and deleted it.
C2_Witness ==
    /\ last.valid /\ last.ok /\ ~last.ext /\ ~ext
    /\ ~last.intent.metricsEnabled /\ last.ops = <<"Delete">>
    /\ ~resource.present

\* Three calls in a row (prev2, prev, last) that returned nil, undisturbed by
\* other actors, the first one starting with no ServiceMonitor, with metrics
\* enabled, disabled, enabled.
Toggled ==
    /\ prev2.valid /\ prev2.ok /\ ~prev2.ext /\ ~prev2.startedPresent
    /\ prev.valid /\ prev.ok /\ ~prev.ext
    /\ last.valid /\ last.ok /\ ~last.ext
    /\ ~ext
    /\ prev2.intent.metricsEnabled
    /\ ~prev.intent.metricsEnabled
    /\ last.intent.metricsEnabled

\* C3 (desired-flag toggle): such three calls issued Create, Delete, Create,
\* one each in that order, and the ServiceMonitor present at the end has the
\* labels, the selector and the owner of the deployment and the endpoint of
\* the third call's spec: https with a TLS config if and only if that spec is
\* secure, whatever the first call's spec was.
C3_ToggleCreatesDeletesCreates ==
    Toggled =>
        /\ prev2.ops = <<"Create">>
        /\ prev.ops = <<"Delete">>
        /\ last.ops = <<"Create">>
        /\ resource.present
        /\ resource.labels = [arango_deployment |-> DeploymentName,
                              app |-> "arangodb", context |-> "metrics"]
        /\ resource.selector = [arango_deployment |-> DeploymentName, app |-> "arangodb"]
        /\ resource.owner = DeploymentName
        /\ resource.endpoint.port = "exporter"
        /\ resource.endpoint.interval = "10s"
        /\ resource.endpoint.scheme = (IF last.intent.secure THEN "https" ELSE "http")
        /\ resource.endpoint.tls.set = last.intent.secure

\* The toggle with a first spec that is secure and a third that is not.
C3_Witness ==
    /\ Toggled
    /\ prev2.intent.secure
    /\ ~last.intent.secure
    /\ resource.endpoint.scheme = "http"

\* C7 (re-entrant delete), as claimed: a call whose Delete was answered
\* NotFound, the ServiceMonitor having been removed by another actor after
\* the call's Get found it, returns nil.
C7_DeleteOfAbsentSucceeds ==
    (last.valid /\ last.ops = <<"Delete">> /\ last.reply = "NotFound") => last.ok

\* C8 (classification), as claimed: every error EnsureServiceMonitor returns
\* is Temporary or Fatal; after a failed Create it is Fatal when the client
\* reported a validation or conflict failure and Temporary otherwise; after
\* a failed Delete it is Temporary.
C8_FailuresAreClassified ==
    (last.valid /\ ~last.ok) =>
        /\ last.err.kind \in {"Temporary", "Fatal"}
        /\ (last.failedAt = "create") =>
               last.err.kind = (IF last.reply \in {"Invalid", "AlreadyExists"}
                                THEN "Fatal" ELSE "Temporary")
        /\ (last.failedAt = "delete") => last.err.kind = "Temporary"

-----------------------------------------------------------------------------
(* The backup handler's properties (checked under SpecBackup).             *)

\* The handler ran and its lookup returned a backupMeta.
LookedUp == tick.valid /\ tick.looked /\ tick.gerr = NoErr

\* C4 (transition on a successful lookup): the returned status has state
\* Ready and available = true if and only if the backupMeta is available and
\* its numbers of DB servers and of pieces present are equal; otherwise it
\* has state Unavailable and available = false.  Either way the status holds
\* that backupMeta, and no error is returned.
C4_ReadyIffAvailableAndComplete ==
    LookedUp =>
        LET m == tick.backupMeta
            s == tick.res.status
            complete == m.available /\ m.numberOfDBServers = m.numberOfPiecesPresent
        IN  /\ tick.res.hasStatus
            /\ tick.res.err = NoErr
            /\ s.backup = m
            /\ complete => (s.state = "Ready" /\ s.available)
            /\ ~complete => (s.state = "Unavailable" /\ ~s.available)

\* An available backupMeta with a piece missing, on a record whose stored
\* backupMeta was another one.
C4_Witness ==
    /\ LookedUp
    /\ tick.backupMeta.available
    /\ tick.backupMeta.numberOfDBServers = MaxServers
    /\ tick.backupMeta.numberOfPiecesPresent = MaxServers - 1
    /\ tick.pre.backup # tick.backupMeta
    /\ tick.res.status.state = "Unavailable"

\* C5 (deletion propagation): when the lookup returns NotFound, the returned
\* status has state Deleted and available = false, whatever backupMeta and
\* available the record held, and no error is returned.
C5_NotFoundGivesDeleted ==
    (tick.valid /\ tick.looked /\ tick.gerr = RawErr("NotFound")) =>
        /\ tick.res.hasStatus
        /\ tick.res.err = NoErr
        /\ tick.res.status.state = "Deleted"
        /\ ~tick.res.status.available

\* NotFound for a record that held available = true and a complete backupMeta.
C5_Witness ==
    /\ tick.valid /\ tick.looked /\ tick.gerr = RawErr("NotFound")
    /\ tick.pre.available
    /\ tick.pre.backup.available
    /\ tick.pre.backup.numberOfDBServers = tick.pre.backup.numberOfPiecesPresent
    /\ backup.state = "Deleted"

\* C6 (missing-ID fatality), as claimed: for a record with no .status.backup
\* the handler returns a Fatal error and no status, whatever the resolution
\* of the deployment and the client factory returned.
C6_MissingIdAlwaysFatal ==
    (tick.valid /\ ~tick.pre.backup.set) =>
        (tick.res.err.kind = "Fatal" /\ ~tick.res.hasStatus)

\* C6, amended: for a record with no .status.backup the handler returns an
\* error and no status and makes no lookup; the error is Fatal when the
\* deployment was resolved and the client obtained; it is the resolution's
\* error, as it came, when the resolution failed, and Temporary when the
\* resolution succeeded and the client factory failed.
C6_MissingIdFatalOnceClientObtained ==
    (tick.valid /\ ~tick.pre.backup.set) =>
        /\ ~tick.res.hasStatus
        /\ tick.res.lookups = 0
        /\ tick.res.err # NoErr
        /\ (tick.derr = NoErr /\ tick.cerr = NoErr) => tick.res.err.kind = "Fatal"
        /\ (tick.derr # NoErr) => tick.res.err = tick.derr
        /\ (tick.derr = NoErr /\ tick.cerr # NoErr) => tick.res.err.kind = "Temporary"

\* A record with no .status.backup, the deployment resolved, the client obtained.
C6_Witness ==
    /\ tick.valid /\ ~tick.pre.backup.set
    /\ tick.derr = NoErr /\ tick.cerr = NoErr
    /\ tick.res.err.kind = "Fatal"

\* C9 (client acquisition), as claimed: when the resolution of the deployment
\* or the client factory fails, the handler returns a Temporary error, no
\* status, and makes no lookup.
C9_AcquisitionFailureIsTemporary ==
    (tick.valid /\ (tick.derr # NoErr \/ tick.cerr # NoErr)) =>
        /\ tick.res.err.kind = "Temporary"
        /\ ~tick.res.hasStatus
        /\ tick.res.lookups = 0

\* C9, amended: when the resolution of the deployment or the client factory
\* fails, the handler returns an error, no status, and makes no lookup; the
\* error is Temporary when the client factory failed after the deployment
\* was resolved, and it is the resolution's error, with the kind it came
\* with, when the resolution failed.
C9_AcquisitionFailureReturnsError ==
    (tick.valid /\ (tick.derr # NoErr \/ tick.cerr # NoErr)) =>
        /\ ~tick.res.hasStatus
        /\ tick.res.lookups = 0
        /\ ~tick.looked
        /\ tick.res.err # NoErr
        /\ (tick.derr = NoErr) =>
               (tick.res.err.kind = "Temporary" /\ tick.res.err.cause = tick.cerr.cause)
        /\ (tick.derr # NoErr) => tick.res.err = tick.derr

\* The client factory failed for a record that has a backup id.
C9_Witness ==
    /\ tick.valid /\ tick.derr = NoErr /\ tick.cerr # NoErr
    /\ tick.pre.backup.set
    /\ tick.res.err.kind = "Temporary"
    /\ backup = tick.pre

\* C10 (soft lookup failure): when the lookup fails with an error other than
\* NotFound, the returned status has available = false and the record's
\* state and backupMeta, and no error is returned.
C10_LookupErrorClearsAvailableOnly ==
    (tick.valid /\ tick.looked /\ tick.gerr # NoErr /\ tick.gerr # RawErr("NotFound")) =>
        /\ tick.res.hasStatus
        /\ tick.res.err = NoErr
        /\ ~tick.res.status.available
        /\ tick.res.status.state = tick.pre.state
        /\ tick.res.status.backup = tick.pre.backup

\* A failed lookup for a record that held available = true.
C10_Witness ==
    /\ tick.valid /\ tick.looked /\ tick.gerr = RawErr("Unavailable")
    /\ tick.pre.available
    /\ ~backup.available
    /\ backup.state = "Unavailable"

\* C11 (availability invariant): over any sequence of ticks of the handler
\* on a record that starts with available = false, each returned status
\* replacing the persisted one, a persisted record with available = true
\* has state Ready and holds a backupMeta that is available and whose numbers
\* of DB servers and of pieces present are equal.
C11_AvailableOnlyWhenReadyAndComplete ==
    backup.available =>
        /\ backup.state = "Ready"
        /\ backup.backup.set
        /\ backup.backup.available
        /\ backup.backup.numberOfDBServers = backup.backup.numberOfPiecesPresent

\* A tick made available a record that held available = false and the
\* details of the same backup with a piece missing.
C11_Witness ==
    /\ backup.available
    /\ tick.valid
    /\ ~tick.pre.available
    /\ tick.pre.backup.set
    /\ tick.pre.backup.available
    /\ tick.pre.backup.numberOfDBServers # tick.pre.backup.numberOfPiecesPresent
    /\ tick.pre.backup.id = tick.backupMeta.id

\* C14 (result guarantee), as claimed: every call makes at most one lookup
\* and returns either a status and no error or an error and no status; it
\* returns no status only when the resolution of the deployment or the
\* client factory failed.
C14_NoStatusOnlyOnAcquisitionFailure ==
    tick.valid =>
        /\ tick.res.lookups <= 1
        /\ \/ (tick.res.hasStatus /\ tick.res.err = NoErr)
           \/ (~tick.res.hasStatus /\ tick.res.err # NoErr)
        /\ ~tick.res.hasStatus => (tick.derr # NoErr \/ tick.cerr # NoErr)

\* C14, amended: every call makes at most one lookup and returns either a
\* status and no error or an error and no status; it returns no status (and
\* makes no lookup) exactly when the resolution of the deployment failed, the
\* client factory failed, or the record has no .status.backup.
C14_OneResultAtMostOneLookup ==
    tick.valid =>
        /\ tick.res.lookups <= 1
        /\ \/ (tick.res.hasStatus /\ tick.res.err = NoErr)
           \/ (~tick.res.hasStatus /\ tick.res.err # NoErr)
        /\ ~tick.res.hasStatus <=>
               (tick.derr # NoErr \/ tick.cerr # NoErr \/ ~tick.pre.backup.set)
        /\ (tick.res.lookups = 1) <=> tick.res.hasStatus
        /\ (tick.res.lookups = 1) <=> tick.looked

\* The deployment was resolved and the client obtained, the record has no
\* .status.backup: an error and no status.
C14_Witness ==
    /\ tick.valid
    /\ tick.derr = NoErr /\ tick.cerr = NoErr
    /\ ~tick.pre.backup.set
    /\ ~tick.res.hasStatus
    /\ tick.res.lookups = 0

\* C15 (atomic status write): a returned status with state Ready comes from
\* a lookup that succeeded and holds the backupMeta of that lookup and
\* available = true; and a persisted record with state Ready is that status,
\* whole.
C15_ReadyCarriesItsLookup ==
    /\ (tick.valid /\ tick.res.hasStatus /\ tick.res.status.state = "Ready") =>
           /\ LookedUp
           /\ tick.res.status.backup = tick.backupMeta
           /\ tick.res.status.available
    /\ (backup.state = "Ready") =>
           /\ tick.valid
           /\ backup = tick.res.status
           /\ backup.backup = tick.backupMeta

\* The record became Ready and the details it held before were other ones.
C15_Witness ==
    /\ backup.state = "Ready"
    /\ tick.valid
    /\ tick.pre.backup.set
    /\ tick.pre.backup # tick.backupMeta

\* C20 (order of composition): after a lookup that succeeded, the status
\* returned is the one that the three updates (the state, the backupMeta and
\* the availability of the branch taken) give in every order, the order
\* state, backupMeta, available of the not-ready branch and the order
\* backupMeta, state, available of the ready branch among them.
C20_AnyOrderSameStatus ==
    LookedUp =>
        LET m == tick.backupMeta
            complete == m.available /\ m.numberOfDBServers = m.numberOfPiecesPresent
            state == IF complete THEN "Ready" ELSE "Unavailable"
        IN  \A order \in Orders :
                ApplyUpdates(order, tick.pre, state, m, complete) = tick.res.status

\* A ready backup on a record whose three fields all change.
C20_Witness ==
    /\ LookedUp
    /\ tick.res.status.state = "Ready"
    /\ ~tick.pre.available
    /\ tick.pre.backup # tick.backupMeta
    /\ Cardinality(Orders) = 6

\* C12 (endpoint construction): the endpoint of the ServiceMonitor handed to
\* Create has port "exporter" and interval "10s"; for a deployment that is
\* not secure it has scheme http and no TLS config; for a secure one whose CA
\* lookup succeeded, scheme https and a TLS config with that CA and
\* verification on; for a secure one whose CA lookup failed, scheme https and
\* insecureSkipVerify = true.  A call whose CA lookup failed issued the
\* Create all the same, and returned an error only when Create itself was
\* refused; when Create was accepted the ServiceMonitor is the one built.
C12_EndpointFollowsSecureAndCA ==
    (last.valid /\ last.got = "NotFound" /\ last.intent.metricsEnabled) =>
        LET e == last.created.endpoint
        IN  /\ last.ops = <<"Create">>
            /\ e.port = "exporter"
            /\ e.interval = "10s"
            /\ ~last.intent.secure =>
                   (last.ca = "" /\ e.scheme = "http" /\ ~e.tls.set)
            /\ (last.intent.secure /\ last.ca \in CACerts) =>
                   /\ e.scheme = "https"
                   /\ e.tls.set
                   /\ e.tls.caFile = last.ca
                   /\ ~e.tls.insecureSkipVerify
            /\ (last.intent.secure /\ last.ca = CAError) =>
                   /\ e.scheme = "https"
                   /\ e.tls.set
                   /\ e.tls.insecureSkipVerify
            /\ last.intent.secure => last.ca \in CAResults
            /\ last.ok <=> (last.reply = "ok")
            /\ (last.ok /\ ~ext) => (resource = last.created)

\* A secure deployment whose CA lookup failed: the ServiceMonitor was created.
C12_Witness ==
    /\ last.valid
    /\ last.intent.secure
    /\ last.ca = CAError
    /\ last.ok
    /\ resource = last.created
    /\ resource.endpoint.scheme = "https"

C18_Failed ==
    /\ last.valid
    /\ (last.failedAt = "client" \/ last.got = "error")

\* C18 (failure before any mutation): a call that could not obtain the
\* monitoring client, or whose Get failed with an error other than NotFound,
\* returned an error and issued no Create and no Delete, with metrics enabled
\* or not; and while such a call is the latest one returned, the
\* ServiceMonitor changes only by another actor.
C18_ClientOrGetFailureChangesNothing ==
    /\ [](C18_Failed => (~last.ok /\ last.err # NoErr /\ last.ops = <<>>))
    /\ [][(C18_Failed' /\ resource' # resource) => ext']_vars

\* Get failed where a Create would have followed.
C18_Witness ==
    /\ last.valid
    /\ last.got = "error"
    /\ last.intent.metricsEnabled
    /\ ~resource.present
    /\ ~last.ok

\* C13 (single-flight), as claimed: however the calls of the goroutines
\* interleave, at most one client is constructed and all the clients
\* returned are that one.
C13_ConstructedAtMostOnce ==
    /\ built <= 1
    /\ \A p, q \in Procs :
          (callers[p].returned /\ callers[p].ret # 0 /\
           callers[q].returned /\ callers[q].ret # 0) =>
              (callers[p].ret = callers[q].ret)

\* A call that found a client cached, a call that stored the client it made
\* and returned it, a call whose construction failed.
C19_Hit(c) == c.returned /\ ~c.tried
C19_Made(c) == c.returned /\ c.tried /\ ~c.failed
C19_Failure(c) == c.returned /\ c.tried /\ c.failed

\* C19 (client cache, calls one after another): a call whose construction
\* failed returned nil and left nothing cached, and a call entered while
\* nothing is cached goes on to construct; once a client is cached it is
\* never cleared or replaced, no further client is constructed, and every
\* call returns the cached client.
C19_CacheKeepsFirstClient ==
    /\ [](/\ built <= 1
          /\ monitoringClient \in {0, built}
          /\ \A p \in Procs :
                /\ C19_Failure(callers[p]) => (callers[p].ret = 0)
                /\ C19_Hit(callers[p]) =>
                       (callers[p].ret # 0 /\ callers[p].ret = monitoringClient)
                /\ C19_Made(callers[p]) =>
                       (callers[p].ret # 0 /\ callers[p].ret = monitoringClient))
    /\ [][/\ monitoringClient # 0 =>
                /\ monitoringClient' = monitoringClient
                /\ built' = built
                /\ \A p \in Procs : callers'[p].pc = "idle"
          /\ \A p \in Procs :
                /\ (callers[p].pc = "construct" /\ callers'[p].failed) =>
                       (monitoringClient' = 0 /\ callers'[p].pc = "idle")
                /\ (monitoringClient = 0 /\ callers[p].pc = "idle"
                       /\ callers'[p] # callers[p]) =>
                       (callers'[p].pc = "construct")]_vars

\* Goroutine 2 failed to make a client, then made one on its second call;
\* goroutine 1 got that client from the cache afterwards.
C19_Witness ==
    /\ callers[2].n = 2
    /\ C19_Made(callers[2])
    /\ C19_Hit(callers[1])
    /\ callers[1].ret = callers[2].ret
    /\ built = 1

\* The ServiceMonitor exists if and only if metrics are enabled.
Converged == resource.present = desired.metricsEnabled

\* C17 (convergence under interruption): with the spec held fixed, from any
\* state of the ServiceMonitor and whatever calls failed or were abandoned
\* before, the ServiceMonitor comes to exist if and only if metrics are
\* enabled and stays so; and once it does, no call goes on to Create or
\* Delete.
C17_ConvergesAndStays ==
    /\ <>[]Converged
    /\ [](Converged => pc \notin {"create", "delete"})
    /\ [][Converged => Converged']_vars

\* After a call that failed or was abandoned, a call created the
\* ServiceMonitor and the call after it issued nothing.
C17_Witness ==
    /\ desired.metricsEnabled
    /\ prev2 = Failed
    /\ prev.ok /\ prev.ops = <<"Create">>
    /\ last.ok /\ last.ops = <<>>
    /\ Converged

=============================================================================
